---- MODULE Spec2Model ----
(***************************************************************************)
(* Model of the shape-puzzle Container component (three variants of the    *)
(* same LWC component) and of its PuzzleTally helper.                      *)
(*                                                                         *)
(*   "assist"      part_000 lines   1-295  (hints carry a fill, clicks on  *)
(*                                          every piece, reset(), new())   *)
(*   "shapes"      part_000 lines 297-535  (revealed pieces are locked,    *)
(*                                          clicks rotate through SHAPES)  *)
(*   "selectable"  part_000 lines 537-764  (revealed pieces are locked,    *)
(*                                          clicks rotate through          *)
(*                                          SELECTABLE_VALUES)             *)
(*                                                                         *)
(* Math.random() is a nondeterministic draw.  Numbers in [0,1) are         *)
(* written in hundredths.                                                  *)
(***************************************************************************)
EXTENDS Integers, Sequences, FiniteSets, TLC

VARIABLES variant, connected, enableAssist, columns, rows, pieces, hints, lastOp

vars == <<variant, connected, enableAssist, columns, rows, pieces, hints, lastOp>>

(***************************************************************************)
(* Bounds of the model.                                                    *)
(***************************************************************************)
\* Largest puzzle (columns * rows) generated in Spec.
MaxCells == 2
\* Largest puzzle (columns * rows) generated in SpecProps.
MaxPropCells == 1
\* Largest puzzle (columns * rows) generated in SpecGen.
MaxGenCells == 4

(***************************************************************************)
(* Program constants.                                                      *)
(***************************************************************************)
COMPLETE_HINT == "#3BB273"
INCOMPLETE_HINT == "#CCCCCC"
REVEALED_FILL == "#333333"
SELECTED_FILL == "#4D9DE0"

\* 0.5, in hundredths.
REVEAL_PROBABILITY == 50

SHAPES == <<"circle", "square", "triangle">>

SELECTABLE_VALUES == <<"">> \o SHAPES

Variants == {"assist", "shapes", "selectable"}

\* Default value of _columns and of _rows.
DefaultDimension == 3

(***************************************************************************)
(* JavaScript primitives.                                                  *)
(***************************************************************************)
Abs(n) == IF n < 0 THEN -n ELSE n

\* a % b of JavaScript for a >= 0 and b # 0: the sign of the dividend.
JsRemainder(a, b) == a % Abs(b)

\* Math.round in place of Math.floor.
FloorDivRounded(a, b) ==
    IF b > 0 THEN (2 * a + b) \div (2 * b) ELSE -((a + Abs(b) - 1) \div Abs(b))

\* Math.floor(a / b) for a >= 0 and b # 0.
FloorDiv(a, b) == IF b > 0 THEN a \div b ELSE -((a + Abs(b) - 1) \div Abs(b))

\* Array.prototype.indexOf, 0-based, -1 when absent.
IndexOf(seq, v) ==
    IF \E i \in 1..Len(seq) : seq[i] = v
    THEN (CHOOSE i \in 1..Len(seq) : seq[i] = v /\ \A j \in 1..(i - 1) : seq[j] # v) - 1
    ELSE -1

\* Element at a 0-based index of an array.
At(seq, i) == seq[i + 1]

DigitString(d) ==
    CASE d = 0 -> "0" [] d = 1 -> "1" [] d = 2 -> "2" [] d = 3 -> "3" [] d = 4 -> "4"
      [] d = 5 -> "5" [] d = 6 -> "6" [] d = 7 -> "7" [] d = 8 -> "8" [] d = 9 -> "9"

RECURSIVE NaturalToString(_)
NaturalToString(n) ==
    IF n < 10 THEN DigitString(n)
    ELSE NaturalToString(n \div 10) \o DigitString(n % 10)

\* Template-literal conversion of an integer.
NumberToString(n) == IF n < 0 THEN "-" \o NaturalToString(-n) ELSE NaturalToString(n)

stringifyCoordinates(coordinates) ==
    "[" \o NumberToString(coordinates.column) \o "," \o NumberToString(coordinates.row) \o "]"

(***************************************************************************)
(* PuzzleTally.                                                            *)
(***************************************************************************)
\* The filter compares selectedValue in place of value.
getValueCountOfSelected(ps, columnOrRow, columnOrRowNumber, shape) ==
    Cardinality({i \in 1..Len(ps) :
        columnOrRowNumber = ps[i].coordinates[columnOrRow] /\ shape = ps[i].selectedValue})

\* this.pieces.filter(...).length
getValueCount(ps, columnOrRow, columnOrRowNumber, shape) ==
    Cardinality({i \in 1..Len(ps) :
        columnOrRowNumber = ps[i].coordinates[columnOrRow] /\ shape = ps[i].value})

getSelectedCount(ps, columnOrRow, columnOrRowNumber, shape) ==
    Cardinality({i \in 1..Len(ps) :
        columnOrRowNumber = ps[i].coordinates[columnOrRow] /\ shape = ps[i].selectedValue})

getColumnValueCount(ps, columnNumber, shape) == getValueCount(ps, "column", columnNumber, shape)

getColumnSelectedCount(ps, columnNumber, shape) == getSelectedCount(ps, "column", columnNumber, shape)

\* The row tally taken along the column axis.
getRowTallyOfColumn(ps, rowNumber, shape) == getValueCount(ps, "column", rowNumber, shape)

getRowTally(ps, rowNumber, shape) == getValueCount(ps, "row", rowNumber, shape)

getValidRowTally(ps, rowNumber, shape) == getSelectedCount(ps, "row", rowNumber, shape)

(***************************************************************************)
(* Generation of the pieces.                                               *)
(***************************************************************************)
\* Results of Math.random(), in hundredths: one sample for each outcome of
\* the two uses that are made of it, the threshold 0.5 included.
RevealSamples == {50, 99}
ShapeSamples == {0, 50, 99}

\* REVEAL_PROBABILITY < Math.random()
IsRevealed(random) == REVEAL_PROBABILITY < random

\* SHAPES[Math.floor(Math.random() * SHAPES.length)]
getRandomShape(random) == At(SHAPES, (random * Len(SHAPES)) \div 100)

PieceFill(v, revealed) ==
    IF v = "assist"
    THEN (IF revealed THEN REVEALED_FILL ELSE SELECTED_FILL)
    ELSE (IF revealed THEN "#333" ELSE "rgb(0 112 210)")

\* selectedValue with the two branches of the conditional exchanged.
GeneratePieceSwapped(v, cols, index, draw) ==
    LET coordinates == [column |-> JsRemainder(index, cols) + Len(SHAPES),
                        row |-> FloorDiv(index, cols) + Len(SHAPES)]
        revealed == IsRevealed(draw.reveal)
        value == getRandomShape(draw.shape)
    IN [coordinates |-> coordinates,
        fill |-> PieceFill(v, revealed),
        key |-> stringifyCoordinates(coordinates),
        revealed |-> revealed,
        selectedValue |-> IF revealed THEN "" ELSE value,
        value |-> value]

\* The body of the loop of _generatePieces for one index; draw holds the
\* results of its two calls of Math.random().
GeneratePiece(v, cols, index, draw) ==
    LET coordinates == [column |-> JsRemainder(index, cols) + Len(SHAPES),
                        row |-> FloorDiv(index, cols) + Len(SHAPES)]
        revealed == IsRevealed(draw.reveal)
        value == getRandomShape(draw.shape)
    IN [coordinates |-> coordinates,
        fill |-> PieceFill(v, revealed),
        key |-> stringifyCoordinates(coordinates),
        revealed |-> revealed,
        selectedValue |-> IF revealed THEN value ELSE "",
        value |-> value]

PieceCount(cols, rws) == IF cols * rws > 0 THEN cols * rws ELSE 0

\* draws: for each index of the loop, the results of Math.random().
_generatePieces(v, cols, rws, draws) ==
    [i \in 1..PieceCount(cols, rws) |-> GeneratePiece(v, cols, i - 1, draws[i])]

Draws(cols, rws) ==
    [1..PieceCount(cols, rws) -> [reveal : RevealSamples, shape : ShapeSamples]]

(***************************************************************************)
(* Generation of the hints.                                                *)
(***************************************************************************)
\* The fill computed without looking at enableAssist.
GenerateHintAlwaysAssisted(v, ps, assist, isRow, index, coord) ==
    LET shape == At(SHAPES, index)
        valueCount == IF isRow THEN getRowTally(ps, coord, shape)
                      ELSE getColumnValueCount(ps, coord, shape)
        selectedCount == IF isRow THEN getValidRowTally(ps, coord, shape)
                         ELSE getColumnSelectedCount(ps, coord, shape)
        coordinates == IF isRow THEN [column |-> index, row |-> coord]
                       ELSE [column |-> coord, row |-> index]
    IN IF v = "assist"
       THEN [content |-> valueCount, coordinates |-> coordinates,
             key |-> stringifyCoordinates(coordinates), shape |-> shape,
             fill |-> IF valueCount = selectedCount THEN COMPLETE_HINT ELSE INCOMPLETE_HINT]
       ELSE [content |-> valueCount, coordinates |-> coordinates,
             key |-> stringifyCoordinates(coordinates), shape |-> shape]

\* The hint of one shape (0-based index in SHAPES) and one line.
GenerateHint(v, ps, assist, isRow, index, coord) ==
    LET shape == At(SHAPES, index)
        valueCount == IF isRow THEN getRowTally(ps, coord, shape)
                      ELSE getColumnValueCount(ps, coord, shape)
        selectedCount == IF isRow THEN getValidRowTally(ps, coord, shape)
                         ELSE getColumnSelectedCount(ps, coord, shape)
        coordinates == IF isRow THEN [column |-> index, row |-> coord]
                       ELSE [column |-> coord, row |-> index]
    IN IF v = "assist"
       THEN [content |-> valueCount, coordinates |-> coordinates,
             key |-> stringifyCoordinates(coordinates), shape |-> shape,
             fill |-> IF valueCount = selectedCount /\ assist
                      THEN COMPLETE_HINT ELSE INCOMPLETE_HINT]
       ELSE [content |-> valueCount, coordinates |-> coordinates,
             key |-> stringifyCoordinates(coordinates), shape |-> shape]

\* SHAPES.forEach((shape, index) => { for (coord = start; coord < total; ...) })
_generateHints(v, ps, assist, total, start, isRow) ==
    LET n == IF total > start THEN total - start ELSE 0
    IN [j \in 1..(Len(SHAPES) * n) |->
           GenerateHint(v, ps, assist, isRow, (j - 1) \div n, start + ((j - 1) % n))]

generateRowHints(v, ps, assist, rws) ==
    _generateHints(v, ps, assist, rws + Len(SHAPES), Len(SHAPES), TRUE)

generateColumnHints(v, ps, assist, cols) ==
    _generateHints(v, ps, assist, cols + Len(SHAPES), Len(SHAPES), FALSE)

generateHints(v, ps, assist, cols, rws) ==
    generateColumnHints(v, ps, assist, cols) \o generateRowHints(v, ps, assist, rws)

(***************************************************************************)
(* Validity, reset and selection.                                          *)
(***************************************************************************)
\* every in place of some.
checkValidityEvery(ps) == ~ \A i \in 1..Len(ps) : ps[i].value # ps[i].selectedValue

checkValidity(ps) == ~ \E i \in 1..Len(ps) : ps[i].value # ps[i].selectedValue

\* The reset without its filter on revealed.
ResetAllPieces(ps) == [i \in 1..Len(ps) |-> [ps[i] EXCEPT !.selectedValue = ""]]

\* this.pieces.filter(({ revealed }) => !revealed).forEach(...)
ResetPieces(ps) ==
    [i \in 1..Len(ps) |->
        IF ~ps[i].revealed THEN [ps[i] EXCEPT !.selectedValue = ""] ELSE ps[i]]

\* pieces.find(({ key }) => key === uid): the 1-based position, 0 when absent.
FindPiece(ps, uid) ==
    IF \E i \in 1..Len(ps) : ps[i].key = uid
    THEN CHOOSE i \in 1..Len(ps) : ps[i].key = uid /\ \A j \in 1..(i - 1) : ps[j].key # uid
    ELSE 0

\* The rotation taken over the shapes only: empty is never selected again.
NextSelectableShape(selectedValue) ==
    At(SELECTABLE_VALUES, (IndexOf(SELECTABLE_VALUES, selectedValue) % Len(SHAPES)) + 1)

\* handleClick of the "assist" and "selectable" variants: the next
\* selectable value.
NextSelectable(selectedValue) ==
    At(SELECTABLE_VALUES, (IndexOf(SELECTABLE_VALUES, selectedValue) + 1) % Len(SELECTABLE_VALUES))

\* handleClick of the "shapes" variant.
NextShape(selectedValue) ==
    IF selectedValue = "" THEN At(SHAPES, 0)
    ELSE At(SHAPES, (IndexOf(SHAPES, selectedValue) + 1) % Len(SHAPES))

\* The assist variant with the revealed pieces locked, as in the others.
ClickPiecesLocked(v, ps, i) ==
    IF ps[i].revealed THEN ps
    ELSE [ps EXCEPT ![i].selectedValue = IF v = "shapes" THEN NextShape(@) ELSE NextSelectable(@)]

\* The early return on revealed left out.
ClickPiecesUnlocked(v, ps, i) ==
    [ps EXCEPT ![i].selectedValue = IF v = "shapes" THEN NextShape(@) ELSE NextSelectable(@)]

\* The pieces after handleClick on the piece at position i.
ClickPieces(v, ps, i) ==
    CASE v = "assist" -> [ps EXCEPT ![i].selectedValue = NextSelectable(@)]
      [] v = "shapes" ->
            IF ps[i].revealed THEN ps ELSE [ps EXCEPT ![i].selectedValue = NextShape(@)]
      [] v = "selectable" ->
            IF ps[i].revealed THEN ps ELSE [ps EXCEPT ![i].selectedValue = NextSelectable(@)]

(***************************************************************************)
(* State machine.                                                          *)
(***************************************************************************)
\* The record of the last operation: its name, the uid of the clicked
\* element, the value checkValidity() returned, whether the handler threw,
\* and, for a click, how many clicks in a row the same piece has received
\* (run) since its selectedValue was from.
Op(name) == [op |-> name, key |-> "", result |-> FALSE, threw |-> FALSE, run |-> 0, from |-> ""]

\* Values given to the columns and rows setters.
DimValues == 0..MaxCells

\* Dimensions of the puzzles generated in SpecGen.
GenDimValues == (-MaxGenCells)..MaxGenCells

\* The uid of an element that is no piece: the pieces lie at columns >= 3.
UnknownUid == "[0,0]"

\* uids a click event can carry.
ClickUids == {pieces[i].key : i \in 1..Len(pieces)} \cup {UnknownUid}

\* The state after construction.
Init ==
    /\ variant \in Variants
    /\ connected = FALSE
    /\ enableAssist = FALSE
    /\ columns = DefaultDimension
    /\ rows = DefaultDimension
    /\ pieces = <<>>
    /\ hints = <<>>
    /\ lastOp = Op("init")

\* set columns(val) { this._columns = Number(val); }
SetColumns(val) ==
    /\ columns' = val
    /\ lastOp' = Op("setColumns")
    /\ UNCHANGED <<variant, connected, enableAssist, rows, pieces, hints>>

\* set rows(val) { this._rows = Number(val); }
SetRows(val) ==
    /\ rows' = val
    /\ lastOp' = Op("setRows")
    /\ UNCHANGED <<variant, connected, enableAssist, columns, pieces, hints>>

\* @api enableAssist, set by the owner of the component.
SetEnableAssist(val) ==
    /\ variant = "assist"
    /\ enableAssist' = val
    /\ lastOp' = Op("setEnableAssist")
    /\ UNCHANGED <<variant, connected, columns, rows, pieces, hints>>

\* generatePieces(); generateHints();
Generate(cap) ==
    /\ PieceCount(columns, rows) <= cap
    /\ \E draws \in Draws(columns, rows) :
          pieces' = _generatePieces(variant, columns, rows, draws)
    /\ hints' = generateHints(variant, pieces', enableAssist, columns, rows)

ConnectedCallbackCap(cap) ==
    /\ ~connected
    /\ Generate(cap)
    /\ connected' = TRUE
    /\ lastOp' = Op("connectedCallback")
    /\ UNCHANGED <<variant, enableAssist, columns, rows>>

NewCap(cap) ==
    /\ variant = "assist"
    /\ Generate(cap)
    /\ lastOp' = Op("new")
    /\ UNCHANGED <<variant, connected, enableAssist, columns, rows>>

Reset ==
    /\ variant = "assist"
    /\ pieces' = ResetPieces(pieces)
    /\ hints' = IF enableAssist
                THEN generateHints(variant, pieces', enableAssist, columns, rows)
                ELSE hints
    /\ lastOp' = Op("reset")
    /\ UNCHANGED <<variant, connected, enableAssist, columns, rows>>

\* Clicks in a row on the piece uid, this one included.
ClickRun(uid, selectedValue) ==
    IF lastOp.op = "click" /\ lastOp.key = uid /\ ~lastOp.threw
       /\ lastOp.run < Len(SELECTABLE_VALUES)
    THEN [run |-> lastOp.run + 1, from |-> lastOp.from]
    ELSE [run |-> 1, from |-> selectedValue]

HandleClick(uid) ==
    LET i == FindPiece(pieces, uid)
    IN IF i = 0
       THEN \* piece is undefined: destructuring it throws a TypeError
            /\ lastOp' = [Op("click") EXCEPT !.key = uid, !.threw = TRUE]
            /\ UNCHANGED <<variant, connected, enableAssist, columns, rows, pieces, hints>>
       ELSE /\ pieces' = ClickPieces(variant, pieces, i)
            /\ hints' = IF variant = "assist" /\ enableAssist
                        THEN generateHints(variant, pieces', enableAssist, columns, rows)
                        ELSE hints
            /\ lastOp' = [Op("click") EXCEPT !.key = uid,
                                             !.run = ClickRun(uid, pieces[i].selectedValue).run,
                                             !.from = ClickRun(uid, pieces[i].selectedValue).from]
            /\ UNCHANGED <<variant, connected, enableAssist, columns, rows>>

HandleAssistClick ==
    /\ variant = "assist"
    /\ enableAssist' = ~enableAssist
    /\ hints' = generateHints(variant, pieces, enableAssist', columns, rows)
    /\ lastOp' = Op("assistClick")
    /\ UNCHANGED <<variant, connected, columns, rows, pieces>>

CheckValidity ==
    /\ lastOp' = [Op("checkValidity") EXCEPT !.result = checkValidity(pieces)]
    /\ UNCHANGED <<variant, connected, enableAssist, columns, rows, pieces, hints>>

(***************************************************************************)
(* Spec: the sessions made of new(), reset(), clicks, assist toggles and    *)
(* checkValidity() only, in any order.  The public properties columns,     *)
(* rows and enableAssist are written by the owner before the component is  *)
(* connected and not after: nothing in the code forbids a later write,     *)
(* which SpecProps covers.                                                 *)
(***************************************************************************)
ChangeColumns == \E val \in DimValues : SetColumns(val)

ChangeRows == \E val \in DimValues : SetRows(val)

ChangeEnableAssist == \E val \in BOOLEAN : SetEnableAssist(val)

ConfigureColumns == ~connected /\ ChangeColumns

ConfigureRows == ~connected /\ ChangeRows

ConfigureEnableAssist == ~connected /\ ChangeEnableAssist

ConnectedCallback == ConnectedCallbackCap(MaxCells)

New == connected /\ NewCap(MaxCells)

ResetPuzzle == connected /\ Reset

Click == connected /\ \E uid \in ClickUids : HandleClick(uid)

AssistClick == connected /\ HandleAssistClick

Validity == connected /\ CheckValidity

Next ==
    \/ ConfigureColumns
    \/ ConfigureRows
    \/ ConfigureEnableAssist
    \/ ConnectedCallback
    \/ New
    \/ ResetPuzzle
    \/ Click
    \/ AssistClick
    \/ Validity

Spec == Init /\ [][Next]_vars

(***************************************************************************)
(* SpecProps: the component with its public properties columns, rows and   *)
(* enableAssist written at any time, also after it is connected.  A write  *)
(* of enableAssist only stores the value: the hints keep their fills until *)
(* something regenerates them.                                             *)
(***************************************************************************)
PropsConnectedCallback == ConnectedCallbackCap(MaxPropCells)

PropsNew == connected /\ NewCap(MaxPropCells)

NextProps ==
    \/ ChangeColumns
    \/ ChangeRows
    \/ ChangeEnableAssist
    \/ PropsConnectedCallback
    \/ PropsNew
    \/ ResetPuzzle
    \/ Click
    \/ AssistClick
    \/ Validity

SpecProps == Init /\ [][NextProps]_vars

(***************************************************************************)
(* SpecGen: generatePieces and generateHints as functions of the           *)
(* dimensions, applied once to every pair of dimensions of the bounds.     *)
(***************************************************************************)
InitGen ==
    /\ variant \in Variants
    /\ connected = FALSE
    /\ enableAssist \in {b \in BOOLEAN : b => variant = "assist"}
    /\ columns \in GenDimValues
    /\ rows \in GenDimValues
    /\ PieceCount(columns, rows) <= MaxGenCells
    /\ pieces = <<>>
    /\ hints = <<>>
    /\ lastOp = Op("init")

GenConnectedCallback == lastOp.op = "init" /\ ConnectedCallbackCap(MaxGenCells)

GenNew == lastOp.op = "init" /\ NewCap(MaxGenCells)

NextGen == GenConnectedCallback \/ GenNew

SpecGen == InitGen /\ [][NextGen]_vars

(***************************************************************************)
(* Properties.                                                             *)
(***************************************************************************)
Indices(seq) == 1..Len(seq)

NumShapes == Len(SHAPES)

Generated == lastOp.op \in {"connectedCallback", "new"}

\* C1: for columns > 0 and rows > 0, generatePieces yields exactly
\* columns * rows pieces with pairwise-distinct keys; the piece at linear
\* index i sits at (i mod columns + numShapes, i div columns + numShapes),
\* so the coordinates of the pieces are exactly the cells of
\* [numShapes, numShapes + columns) x [numShapes, numShapes + rows), each once.
C1_PiecesCoverGrid ==
    (Generated /\ columns > 0 /\ rows > 0) =>
        /\ Len(pieces) = columns * rows
        /\ \A i, j \in Indices(pieces) : i # j => pieces[i].key # pieces[j].key
        /\ \A i \in Indices(pieces) :
              /\ pieces[i].coordinates.column = ((i - 1) % columns) + NumShapes
              /\ pieces[i].coordinates.row = ((i - 1) \div columns) + NumShapes
        /\ {<<pieces[i].coordinates.column, pieces[i].coordinates.row>> : i \in Indices(pieces)}
              = (NumShapes..(NumShapes + columns - 1)) \X (NumShapes..(NumShapes + rows - 1))
        /\ \A i, j \in Indices(pieces) :
              i # j => pieces[i].coordinates # pieces[j].coordinates

\* A generated puzzle of two columns and two rows: the index wraps to the
\* second row.
C1_Witness ==
    /\ Generated /\ columns = 2 /\ rows = 2
    /\ Len(pieces) = 4
    /\ pieces[4].key = "[4,4]"
    /\ pieces[3].key = "[3,4]"

\* C2: right after generation (connectedCallback or new()), every revealed
\* piece has selectedValue = value and every other piece has the empty
\* selectedValue, whatever the random draws.
C2_SelectedAfterGeneration ==
    Generated =>
        \A i \in Indices(pieces) :
            /\ pieces[i].revealed => pieces[i].selectedValue = pieces[i].value
            /\ ~pieces[i].revealed => pieces[i].selectedValue = ""

\* A puzzle generated by new() with a revealed and a hidden piece.
C2_Witness ==
    /\ lastOp.op = "new"
    /\ \E i, j \in Indices(pieces) :
          /\ pieces[i].revealed /\ pieces[i].selectedValue = "triangle"
          /\ ~pieces[j].revealed /\ pieces[j].value = "square"

\* C5: for a generated puzzle and any line of the puzzle band, the value
\* tallies of the line over all shapes add up to the length of the line:
\* columns for a row, rows for a column.
C5_TalliesSumToLineLength ==
    (Generated /\ columns > 0 /\ rows > 0) =>
        /\ \A r \in NumShapes..(NumShapes + rows - 1) :
              getRowTally(pieces, r, SHAPES[1]) + getRowTally(pieces, r, SHAPES[2])
                  + getRowTally(pieces, r, SHAPES[3]) = columns
        /\ \A c \in NumShapes..(NumShapes + columns - 1) :
              getColumnValueCount(pieces, c, SHAPES[1]) + getColumnValueCount(pieces, c, SHAPES[2])
                  + getColumnValueCount(pieces, c, SHAPES[3]) = rows

\* A generated puzzle of three columns and one row whose row holds two
\* circles and a triangle.
C5_Witness ==
    /\ Generated /\ columns = 3 /\ rows = 1
    /\ getRowTally(pieces, NumShapes, "circle") = 2
    /\ getRowTally(pieces, NumShapes, "square") = 0
    /\ getRowTally(pieces, NumShapes, "triangle") = 1
    /\ getColumnValueCount(pieces, NumShapes + 2, "triangle") = 1

\* Number of pieces on a line (axis "column" or "row") whose field (value or
\* selectedValue) is the shape.
LineCount(axis, line, field, shape) ==
    Cardinality({k \in Indices(pieces) :
                    pieces[k].coordinates[axis] = line /\ pieces[k][field] = shape})

\* Position in hints of the column hint of the shape of 0-based index i and
\* column c, and of the row hint of that shape and row r.
ColumnHintAt(i, c) == i * columns + (c - NumShapes) + 1

RowHintAt(i, r) == NumShapes * columns + i * rows + (r - NumShapes) + 1

\* C3: in every state reached by new(), reset(), clicks and assist toggles,
\* the row hint of the shape of index i and row r sits at (column i, row r),
\* the column hint of that shape and column c sits at (column c, row i), and
\* the content of each is the number of pieces of its line whose value is its
\* shape, whatever their selectedValue.
C3_HintsCountValues ==
    connected =>
        /\ \A i \in 0..(NumShapes - 1) : \A c \in NumShapes..(NumShapes + columns - 1) :
              /\ ColumnHintAt(i, c) \in Indices(hints)
              /\ hints[ColumnHintAt(i, c)].shape = SHAPES[i + 1]
              /\ hints[ColumnHintAt(i, c)].coordinates = [column |-> c, row |-> i]
              /\ hints[ColumnHintAt(i, c)].content = LineCount("column", c, "value", SHAPES[i + 1])
        /\ \A i \in 0..(NumShapes - 1) : \A r \in NumShapes..(NumShapes + rows - 1) :
              /\ RowHintAt(i, r) \in Indices(hints)
              /\ hints[RowHintAt(i, r)].shape = SHAPES[i + 1]
              /\ hints[RowHintAt(i, r)].coordinates = [column |-> i, row |-> r]
              /\ hints[RowHintAt(i, r)].content = LineCount("row", r, "value", SHAPES[i + 1])

\* After a click, a row of two pieces holds one square, selected as a circle:
\* the square hint of the row still reads 1 and its circle hint 0.
C3_Witness ==
    /\ lastOp.op = "click" /\ ~lastOp.threw
    /\ columns = 2 /\ rows = 1
    /\ \E k \in Indices(pieces) : pieces[k].value = "square" /\ pieces[k].selectedValue = "circle"
    /\ LineCount("row", NumShapes, "value", "circle") = 0
    /\ hints[RowHintAt(1, NumShapes)].content = 1
    /\ hints[RowHintAt(0, NumShapes)].content = 0

\* C4 (as claimed): in every state after the component is connected, also
\* after the columns or rows setter and any later click, reset() or assist
\* toggle, there is one hint per axis, line and shape, so that
\* |hints| = numShapes * (columns + rows) for the current columns and rows,
\* and the hinted lines are the lines the current pieces occupy.
C4_OneHintPerLine ==
    (connected /\ columns > 0 /\ rows > 0 /\ Len(pieces) > 0) =>
        /\ Len(hints) = NumShapes * (columns + rows)
        /\ {hints[h].coordinates.column : h \in {g \in Indices(hints) : hints[g].coordinates.row < NumShapes}}
              = {pieces[k].coordinates.column : k \in Indices(pieces)}
        /\ {hints[h].coordinates.row : h \in {g \in Indices(hints) : hints[g].coordinates.column < NumShapes}}
              = {pieces[k].coordinates.row : k \in Indices(pieces)}

AllSelectedRight == \A i \in Indices(pieces) : pieces[i].selectedValue = pieces[i].value

\* C6: checkValidity() returns true exactly when every piece has
\* selectedValue = value; right after generation that is exactly when every
\* piece is revealed; and it changes neither the pieces nor the hints.
C6_CheckValidity ==
    /\ [](lastOp.op = "checkValidity" => (lastOp.result <=> AllSelectedRight))
    /\ [](Generated => (checkValidity(pieces) <=> \A i \in Indices(pieces) : pieces[i].revealed))
    /\ [][lastOp'.op = "checkValidity" => (pieces' = pieces /\ hints' = hints)]_vars

\* checkValidity() has returned true for a puzzle with a hidden piece, whose
\* value the user selected.
C6_Witness ==
    /\ lastOp.op = "checkValidity" /\ lastOp.result
    /\ Len(pieces) = 2
    /\ \E i \in Indices(pieces) : ~pieces[i].revealed /\ pieces[i].selectedValue = "square"

\* C7: after reset(), every piece that is not revealed has the empty
\* selectedValue, and the selectedValue of every revealed piece and the value,
\* revealed flag, coordinates and key of every piece are as before.
C7_ResetFrame ==
    [][lastOp'.op = "reset" =>
          /\ Len(pieces') = Len(pieces)
          /\ \A i \in Indices(pieces) :
                /\ ~pieces[i].revealed => pieces'[i].selectedValue = ""
                /\ pieces[i].revealed => pieces'[i].selectedValue = pieces[i].selectedValue
                /\ pieces'[i].value = pieces[i].value
                /\ pieces'[i].revealed = pieces[i].revealed
                /\ pieces'[i].coordinates = pieces[i].coordinates
                /\ pieces'[i].key = pieces[i].key]_vars

\* After reset(): a revealed piece that the user had clicked away from its
\* value keeps that selection, next to a hidden piece.
C7_Witness ==
    /\ lastOp.op = "reset"
    /\ \E i, j \in Indices(pieces) :
          /\ pieces[i].revealed /\ pieces[i].value = "circle" /\ pieces[i].selectedValue = "square"
          /\ ~pieces[j].revealed /\ pieces[j].selectedValue = ""

\* The cyclic order of the claim and the value reached from a value by a
\* number of steps along it.
CycleOrder == <<"", "circle", "square", "triangle">>

ShapeOrder == <<"circle", "square", "triangle">>

PositionIn(order, v) == CHOOSE k \in Indices(order) : order[k] = v

StepsAlong(order, v, n) == order[((PositionIn(order, v) - 1 + n) % Len(order)) + 1]

\* The piece the last click was on, when it is a click on a piece that is
\* not revealed.
ClickedHidden(i) ==
    /\ lastOp.op = "click" /\ ~lastOp.threw
    /\ i \in Indices(pieces)
    /\ pieces[i].key = lastOp.key
    /\ ~pieces[i].revealed

\* C8 (as claimed): in both variants that lock the revealed pieces,
\* successive clicks on a hidden piece move its selectedValue along
\* empty -> circle -> square -> triangle -> empty: from empty the first click
\* gives circle, the second square, and the fourth gives empty again.
C8_FullCycleInBothVariants ==
    \A i \in Indices(pieces) :
        (variant \in {"shapes", "selectable"} /\ ClickedHidden(i)) =>
            /\ pieces[i].selectedValue = StepsAlong(CycleOrder, lastOp.from, lastOp.run)
            /\ (lastOp.from = "" /\ lastOp.run = 1) => pieces[i].selectedValue = "circle"
            /\ (lastOp.from = "" /\ lastOp.run = 2) => pieces[i].selectedValue = "square"
            /\ (lastOp.from = "" /\ lastOp.run = 4) => pieces[i].selectedValue = ""

\* C8 (amended): in the variant that rotates through SELECTABLE_VALUES the
\* order is empty -> circle -> square -> triangle -> empty, the fourth click
\* from empty giving empty again; in the variant that rotates through SHAPES
\* the first click from empty gives circle and the later ones follow
\* circle -> square -> triangle -> circle, so that the fourth click from
\* empty gives circle and empty is never selected again.
C8_CyclePerVariant ==
    \A i \in Indices(pieces) :
        /\ (variant = "selectable" /\ ClickedHidden(i)) =>
              /\ pieces[i].selectedValue = StepsAlong(CycleOrder, lastOp.from, lastOp.run)
              /\ (lastOp.from = "" /\ lastOp.run = 1) => pieces[i].selectedValue = "circle"
              /\ (lastOp.from = "" /\ lastOp.run = 2) => pieces[i].selectedValue = "square"
              /\ (lastOp.from = "" /\ lastOp.run = 4) => pieces[i].selectedValue = ""
        /\ (variant = "shapes" /\ ClickedHidden(i)) =>
              /\ lastOp.from = "" =>
                    pieces[i].selectedValue = StepsAlong(ShapeOrder, "circle", lastOp.run - 1)
              /\ lastOp.from # "" =>
                    pieces[i].selectedValue = StepsAlong(ShapeOrder, lastOp.from, lastOp.run)
              /\ (lastOp.from = "" /\ lastOp.run = 1) => pieces[i].selectedValue = "circle"
              /\ (lastOp.from = "" /\ lastOp.run = 2) => pieces[i].selectedValue = "square"
              /\ (lastOp.from = "" /\ lastOp.run = 4) => pieces[i].selectedValue = "circle"

\* The fourth click in a row on a hidden piece that was empty, in the
\* variant that rotates through SELECTABLE_VALUES: it is empty again.
C8_Witness ==
    /\ variant = "selectable"
    /\ lastOp.from = "" /\ lastOp.run = 4
    /\ \E i \in Indices(pieces) : ClickedHidden(i) /\ pieces[i].selectedValue = ""

\* C9: in the assist variant a click on an existing piece, revealed or not,
\* moves the selectedValue of that piece to the next entry of
\* [empty, circle, square, triangle], wrapping, and changes no other
\* selectedValue and no value, revealed flag or coordinates.
C9_ClickFrame ==
    [][(variant = "assist" /\ lastOp'.op = "click" /\ ~lastOp'.threw) =>
          /\ Len(pieces') = Len(pieces)
          /\ \A i \in Indices(pieces) :
                /\ pieces[i].key = lastOp'.key =>
                      pieces'[i].selectedValue = StepsAlong(CycleOrder, pieces[i].selectedValue, 1)
                /\ pieces[i].key # lastOp'.key =>
                      pieces'[i].selectedValue = pieces[i].selectedValue
                /\ pieces'[i].value = pieces[i].value
                /\ pieces'[i].revealed = pieces[i].revealed
                /\ pieces'[i].coordinates = pieces[i].coordinates]_vars

\* A click has taken a revealed triangle around to empty, next to another
\* piece.
C9_Witness ==
    /\ variant = "assist"
    /\ lastOp.op = "click" /\ ~lastOp.threw
    /\ Len(pieces) = 2
    /\ \E i \in Indices(pieces) :
          /\ pieces[i].key = lastOp.key
          /\ pieces[i].revealed /\ pieces[i].value = "triangle" /\ pieces[i].selectedValue = ""

\* The line a hint counts: a column hint lies in the rows of the hint band.
HintAxis(h) == IF h.coordinates.row < NumShapes THEN "column" ELSE "row"

HintLine(h) == h.coordinates[HintAxis(h)]

HintLineComplete(h) ==
    LineCount(HintAxis(h), HintLine(h), "selectedValue", h.shape)
        = LineCount(HintAxis(h), HintLine(h), "value", h.shape)

\* C10: in the assist variant, in every state reached by new(), reset(),
\* clicks and assist toggles, the fill of a hint is the complete colour
\* exactly when assist is enabled and as many pieces of its line have its
\* shape selected as have it as value; with assist disabled every hint has
\* the incomplete fill.
C10_HintFill ==
    (variant = "assist" /\ connected) =>
        \A h \in Indices(hints) :
            /\ hints[h].fill \in {COMPLETE_HINT, INCOMPLETE_HINT}
            /\ hints[h].fill = COMPLETE_HINT <=> (enableAssist /\ HintLineComplete(hints[h]))
            /\ ~enableAssist => hints[h].fill = INCOMPLETE_HINT

\* With assist enabled, a click has completed the circles of a row of two
\* pieces while its squares stay incomplete.
C10_Witness ==
    /\ variant = "assist" /\ enableAssist
    /\ lastOp.op = "click" /\ ~lastOp.threw
    /\ columns = 2 /\ rows = 1
    /\ hints[RowHintAt(0, NumShapes)].content = 1
    /\ hints[RowHintAt(0, NumShapes)].fill = COMPLETE_HINT
    /\ hints[RowHintAt(1, NumShapes)].content = 1
    /\ hints[RowHintAt(1, NumShapes)].fill = INCOMPLETE_HINT
    /\ \E i \in Indices(pieces) : ~pieces[i].revealed /\ pieces[i].selectedValue = "circle"

\* The uid of the last click is the key of none of the pieces of the puzzle.
ClickedUnknown(ps, op) ==
    /\ op.op = "click"
    /\ Len(ps) > 0
    /\ \A i \in Indices(ps) : ps[i].key # op.key

\* C11 (as claimed): a click whose uid is the key of no piece is a silent
\* no-op: it raises no error and leaves the pieces and the hints unchanged.
C11_UnknownClickIsSilent ==
    [][ClickedUnknown(pieces, lastOp') =>
          (~lastOp'.threw /\ pieces' = pieces /\ hints' = hints)]_vars

\* C12 (as claimed): generatePieces yields no piece, and no error, whenever
\* columns <= 0 or rows <= 0, also when both are negative.
C12_NoPiecesForNonPositive ==
    (Generated /\ (columns <= 0 \/ rows <= 0)) => pieces = <<>>

\* The last click was on the revealed piece at position i.
ClickedRevealed(ps, op, i) ==
    /\ op.op = "click" /\ ~op.threw
    /\ i \in Indices(ps)
    /\ ps[i].key = op.key
    /\ ps[i].revealed

\* C13: in the variants that lock the revealed pieces, in every state reached
\* by clicks after generation every revealed piece has selectedValue = value,
\* and a click on a revealed piece changes neither the piece nor the pieces.
C13_RevealedLocked ==
    /\ [](variant \in {"shapes", "selectable"} =>
             \A i \in Indices(pieces) :
                 pieces[i].revealed => pieces[i].selectedValue = pieces[i].value)
    /\ [][(variant \in {"shapes", "selectable"}
              /\ \E i \in Indices(pieces) : ClickedRevealed(pieces, lastOp', i)) =>
             pieces' = pieces]_vars

\* In a locking variant, after a hidden piece was given a selection, the
\* last click was on the revealed square next to it, which is still a square.
C13_Witness ==
    /\ variant \in {"shapes", "selectable"}
    /\ \E i, j \in Indices(pieces) :
          /\ ClickedRevealed(pieces, lastOp, i)
          /\ pieces[i].value = "square" /\ pieces[i].selectedValue = "square"
          /\ ~pieces[j].revealed /\ pieces[j].selectedValue = "triangle"

====
